---- MODULE Spec2Model ----
(***************************************************************************)
(* Reliability layer of the Kafka transport: the Consumer life cycle       *)
(* (Run / Stop and the read loop), the processing path with and without a  *)
(* RetryProcessor, retry with backoff and the DLQ escalation.              *)
(***************************************************************************)
EXTENDS Integers, Sequences, FiniteSets, TLC

(***************************************************************************)
(* Bounds of the model.                                                    *)
(***************************************************************************)
\* largest ReliabilityConfig.RetryCount explored
MaxRetryCount == 2
\* longest header list of a message
MaxHeaders == 1
\* largest RetryCount for which the backoff durations are computed
MaxBackoffRetryCount == 3
\* most ticks of the uptime ticker that are followed
MaxTicks == 3
\* longest header list of a message given to createDLQHeaders
MaxDLQHeaders == 3

\* goroutines that call Consumer.Run, in the order in which they call it
Runs == <<"run1", "run2">>
RunIds == {Runs[i] : i \in DOMAIN Runs}
\* goroutines that call Consumer.Stop, in the order in which they call it
Stops == <<"stop1", "stop2">>
StopIds == {Stops[i] : i \in DOMAIN Stops}
\* goroutines that call KafkaProducer.Close, in the order in which they call it
Closes == <<"close1", "close2">>
CloseIds == {Closes[i] : i \in DOMAIN Closes}
\* goroutines that call KafkaProducer.Publish, in the order in which they
\* call it
Publishes == <<"publish1", "publish2">>
PublishIds == {Publishes[i] : i \in DOMAIN Publishes}
\* goroutines that call KafkaEventPublisher.Publish
EmitIds == {"emit1", "emit2"}
\* goroutines that call Consumer.Wait
WaitIds == {"wait1"}
\* goroutines that call Consumer.Close
CloserIds == {"closer1"}

(***************************************************************************)
(* Errors. An error value is its chain of wrappers, outermost first; the   *)
(* empty chain is nil. A handler error remembers the attempt that returned *)
(* it, so that "the last handler error" is a definite value.               *)
(***************************************************************************)
Nil == <<>>

ErrLayer(text, at) == [text |-> text, at |-> at]

\* fmt.Errorf("<text>: %w", err)
Wrap(text, err) == <<ErrLayer(text, -1)>> \o err

\* the kinds of error a Handler returns
HandlerErrKinds ==
    { "plain",                   \* errors.New(...)
      "temporary",               \* transport.NewTemporaryError(err, d)
      "transportNonRetryable",   \* transport.NewNonRetryableError(err)
      "kafkaNonRetryable" }      \* &kafka.RetryableError{Retryable: false}

HandlerResults == {"nil"} \cup HandlerErrKinds

HandlerErr(kind, at) == <<ErrLayer(kind, at)>>

CtxErr == <<ErrLayer("context canceled", -1)>>

PublishErr == <<ErrLayer("write failed", -1)>>

\* the error kinds the documentation of package transport calls non-retryable
DocumentedNonRetryable == {"transportNonRetryable", "kafkaNonRetryable"}

\* a faulty classification: no error is ever taken as non-retryable
IsNonRetryableNever(kind) == FALSE

\* err.(*RetryableError) with !Retryable: a type assertion to the struct of
\* package kafka, which the errors of package transport do not have
IsNonRetryable(kind) == kind = "kafkaNonRetryable"

(***************************************************************************)
(* Header values are byte strings, modelled as sequences of characters.    *)
(***************************************************************************)
DigitChars == <<"0", "1", "2", "3", "4", "5", "6", "7", "8", "9">>

IsDigit(c) == \E i \in DOMAIN DigitChars : DigitChars[i] = c

DigitVal(c) == (CHOOSE i \in DOMAIN DigitChars : DigitChars[i] = c) - 1

RECURSIVE DigitsVal(_)
DigitsVal(s) ==
    IF s = <<>> THEN 0
    ELSE DigitsVal(SubSeq(s, 1, Len(s) - 1)) * 10 + DigitVal(s[Len(s)])

\* strconv.Atoi: optional sign, then at least one decimal digit
Atoi(s) ==
    LET signed == s # <<>> /\ s[1] \in {"+", "-"}
        digits == IF signed THEN Tail(s) ELSE s
        ok     == digits # <<>> /\ \A i \in DOMAIN digits : IsDigit(digits[i])
    IN  IF ~ok THEN [ok |-> FALSE, val |-> 0]
        ELSE [ok |-> TRUE,
              val |-> IF signed /\ s[1] = "-" THEN 0 - DigitsVal(digits)
                      ELSE DigitsVal(digits)]

RECURSIVE NatDigits(_)
NatDigits(n) ==
    IF n < 10 THEN <<DigitChars[n + 1]>>
    ELSE Append(NatDigits(n \div 10), DigitChars[(n % 10) + 1])

\* strconv.Itoa
Itoa(n) == IF n < 0 THEN <<"-">> \o NatDigits(0 - n) ELSE NatDigits(n)

\* err.Error(): the texts of the chain, outermost first
ErrorText(err) == [i \in DOMAIN err |-> err[i].text]

RetryHeaderKey == "x-retry-count"

ErrorHeaderKey == "x-error-message"

TimestampHeaderKey == "x-failed-timestamp"

HeaderKeys == {RetryHeaderKey, "trace-id"}

HeaderValues == { <<"2">>, <<"x">> }

Headers == [Key : HeaderKeys, Value : HeaderValues]

RECURSIVE SeqsUpTo(_, _)
SeqsUpTo(S, n) ==
    IF n = 0 THEN { <<>> }
    ELSE LET shorter == SeqsUpTo(S, n - 1)
         IN  shorter \cup { Append(q, x) : q \in shorter, x \in S }

HeaderLists == SeqsUpTo(Headers, MaxHeaders)

\* the headers of the messages createDLQHeaders is given: those of a first
\* delivery and those of a message that was in a DLQ before
DLQInputHeaders == [Key : HeaderKeys \cup {ErrorHeaderKey}, Value : HeaderValues]

DLQInputMessages == [valid : BOOLEAN, headers : SeqsUpTo(DLQInputHeaders, MaxDLQHeaders)]

\* a message as the read loop sees it: whether its value unmarshals into an
\* Envelope, and its headers
Messages == [valid : BOOLEAN, headers : HeaderLists]

\* the messages delivered where the calls of the life cycle are explored: a
\* first delivery, and a redelivery that carries a retry count
LoopMessages ==
    [valid : BOOLEAN,
     headers : { <<>>, <<[Key |-> RetryHeaderKey, Value |-> <<"2">>]>> }]

\* the messages delivered where the calls of the life cycle are explored
\* without a RetryProcessor
LifecycleMessages == [valid : BOOLEAN, headers : { <<>> }]

\* RetryProcessor.getRetryCount: the first retry-count header that parses
RECURSIVE getRetryCountFrom(_, _)
getRetryCountFrom(headers, key) ==
    IF headers = <<>> THEN 0
    ELSE IF Head(headers).Key = key /\ Atoi(Head(headers).Value).ok
         THEN Atoi(Head(headers).Value).val
         ELSE getRetryCountFrom(Tail(headers), key)

\* a faulty getRetryCount: the header is ignored
getRetryCountIgnored(msg, config) == 0

getRetryCount(msg, config) == getRetryCountFrom(msg.headers, config.DLQRetryHeader)

(***************************************************************************)
(* Configuration and construction.                                         *)
(***************************************************************************)
ReliabilityConfigs ==
    [RetryCount : 0 .. MaxRetryCount,
     DLQEnabled : BOOLEAN,
     DLQTopic : {"", "orders-dlq"},
     DLQRetryHeader : {RetryHeaderKey},
     DLQErrorHeader : {ErrorHeaderKey},
     DLQTimestampHeader : {TimestampHeaderKey}]

ZeroConfig ==
    [RetryCount |-> 0, DLQEnabled |-> FALSE, DLQTopic |-> "",
     DLQRetryHeader |-> RetryHeaderKey, DLQErrorHeader |-> ErrorHeaderKey,
     DLQTimestampHeader |-> TimestampHeaderKey]

NoRetryProcessor == [present |-> FALSE, config |-> ZeroConfig]

\* NewRetryProcessor(config, producer)
NewRetryProcessor(config) == [present |-> TRUE, config |-> config]

\* the retryProcessor field NewConsumer leaves in the Consumer; producerOk
\* says whether NewProducer succeeded
NewConsumer(rel, producerOk) ==
    IF (rel.RetryCount > 0 \/ rel.DLQEnabled)
       /\ (rel.DLQEnabled /\ rel.DLQTopic # "")
       /\ producerOk
    THEN NewRetryProcessor(rel)
    ELSE NoRetryProcessor

(***************************************************************************)
(* The backoff policy. Durations are counted in milliseconds; a multiplier *)
(* is a fraction.                                                          *)
(***************************************************************************)
RetryBackoffs == {1000, 2000, 5000, 40000}

Multipliers ==
    { [num |-> 1, den |-> 1], [num |-> 3, den |-> 2],
      [num |-> 2, den |-> 1], [num |-> 10, den |-> 1] }

MaxRetryBackoffs == {1000, 4000, 30000}

\* the fields of ReliabilityConfig that the retry loop and the backoff read,
\* within their validation tags
BackoffConfigs ==
    [RetryCount : 0 .. MaxBackoffRetryCount,
     RetryBackoff : RetryBackoffs,
     RetryBackoffMultiplier : Multipliers,
     MaxRetryBackoff : MaxRetryBackoffs]

\* GetDefaultReliabilityConfig
DefaultBackoffConfig ==
    [RetryCount |-> 3, RetryBackoff |-> 1000,
     RetryBackoffMultiplier |-> [num |-> 2, den |-> 1], MaxRetryBackoff |-> 30000]

\* time.Duration(float64(backoff) * multiplier): the product, truncated
MulDuration(backoff, m) == (backoff * m.num) \div m.den

\* the loop of GetRetryBackoffWithJitter from iteration i on
RECURSIVE BackoffFrom(_, _, _, _)
BackoffFrom(rc, backoff, i, attempt) ==
    IF i >= attempt THEN backoff
    ELSE LET b == MulDuration(backoff, rc.RetryBackoffMultiplier)
         IN  IF b > rc.MaxRetryBackoff THEN rc.MaxRetryBackoff
             ELSE BackoffFrom(rc, b, i + 1, attempt)

GetRetryBackoffWithJitter(rc, attempt) == BackoffFrom(rc, rc.RetryBackoff, 0, attempt)

(***************************************************************************)
(* State.                                                                  *)
(***************************************************************************)
VARIABLES
    reliability,     \* the cfg.Reliability that NewConsumer was given
    retryProcessor,  \* Consumer.retryProcessor
    isRunning,       \* Consumer.isRunning
    stopCh,          \* Consumer.stopCh is closed
    doneCh,          \* Consumer.doneCh is closed
    activeConsumers, \* the active-consumers gauge of the Metrics sink
    pc,              \* position of each Run call
    ctxDone,         \* the context passed to each Run call is cancelled
    cancelCalled,    \* cancel() of the derived consumerCtx was called
    watcher,         \* the stop-signal goroutine of each Run call
    runResult,       \* how each Run call ended
    stopPc,          \* position of each Stop call
    loc,             \* per Run call: the message in hand, the locals of
                     \* processMessage / ProcessWithRetry, and what was
                     \* done for that message
    backoffConfig,   \* the ReliabilityConfig whose backoff is computed
    waited,          \* the backoff of each attempt of one message that
                     \* failed, in order
    producer,        \* a KafkaProducer: its closed flag, the Close calls its
                     \* writer received and the values its gauge was set to
    closeCall,       \* position and result of each KafkaProducer.Close call
    publishCall,     \* position, locals, result and recorded metrics of each
                     \* KafkaProducer.Publish call
    waitCall,        \* position and result of each Consumer.Wait call
    closerCall,      \* position and result of each Consumer.Close call
    readerClosed,    \* Consumer.reader.Close() was called
    emitCall,        \* position, arguments, locals and result of each
                     \* KafkaEventPublisher.Publish call, and the calls it
                     \* made to its Producer
    uuidsIssued,     \* number of identifiers uuid.NewString() has returned
    metrics,         \* the KafkaMetrics sink: its stop and done channels,
                     \* the holder of its mutex, its uptime goroutine, the
                     \* RecordUptime calls and the close(stopCh) calls made
    metricsClose,    \* position of each KafkaMetrics.Close call
    built,           \* the arguments and the result of a createDLQHeaders
                     \* call, once one was made
    fleet            \* per Consumer instance sharing the Metrics sink: the
                     \* position of its Run call, its isRunning flag and
                     \* whether its stop signal or context cancellation came

vars == <<reliability, retryProcessor, isRunning, stopCh, doneCh, activeConsumers, pc, ctxDone,
          cancelCalled, watcher, runResult, stopPc, loc, backoffConfig, waited,
          producer, closeCall, publishCall, waitCall, closerCall, readerClosed,
          emitCall, uuidsIssued, metrics, metricsClose, built, fleet>>

consumerVars == <<reliability, retryProcessor>>

backoffVars == <<backoffConfig, waited>>

producerVars == <<producer, closeCall, publishCall>>

lifecycleVars == <<waitCall, closerCall, readerClosed>>

publisherVars == <<emitCall, uuidsIssued>>

fleetVars == <<fleet>>

metricsVars == <<metrics, metricsClose>>

headerVars == <<built>>

callVars == <<isRunning, stopCh, doneCh, activeConsumers, ctxDone, cancelCalled,
              watcher, runResult, stopPc>>

NoMessage == [valid |-> FALSE, headers |-> <<>>]

\* the locals at the start of one processing cycle
FreshLoc(has, msg) ==
    [has |-> has,          \* a message was read
     msg |-> msg,
     attempt |-> 0,        \* ProcessWithRetry: attempt
     retryCount |-> 0,     \* ProcessWithRetry: retryCount
     err |-> Nil,          \* ProcessWithRetry: err
     handles |-> 0,        \* Handle calls made
     last |-> "none",      \* result of the latest Handle call
     markedAt |-> [k \in DocumentedNonRetryable |-> -1],
                           \* per kind of non-retryable error, the attempt
                           \* of the first Handle call that returned it
     waits |-> 0,          \* backoff waits that ran to their end
     dlqCalls |-> <<>>,    \* totalRetries of each sendToDLQ call
     pubs |-> <<>>,        \* outcome of each producer.Publish call
     writes |-> <<>>,      \* per Publish call, its context and the message
                           \* it handed to the write client
     statuses |-> <<>>,    \* metrics recorded for the message, in order
     ret |-> Nil,          \* what processMessage returned
     commits |-> 0]        \* CommitMessages calls for the message

\* consumerCtx: context.WithCancel(ctx), done when its parent is done or its
\* cancel function was called
ConsumerCtxDone(r) == ctxDone[r] \/ cancelCalled[r]

\* the arguments of KafkaEventPublisher.Publish
EventIDs == {"", "order-1"}

EventTypes == {"created", "deleted"}

\* what uuid.NewString() returns, call after call
UUIDs == <<"uuid-1", "uuid-2">>

EventTopic == "events"

\* a KafkaEventPublisher.Publish call that has not started
IdleEmit ==
    [pc |-> "idle",
     eventType |-> "",
     eventID |-> "",          \* the argument
     payload |-> "none",      \* "marshals" or "fails": what json.Marshal
                              \* makes of the payload argument
     envelope |-> [EventID |-> "", EventType |-> ""],
     published |-> <<>>,      \* the producer.Publish calls made
     result |-> "none"]

\* a Close call that has not started
IdleCloser ==
    [pc |-> "idle",
     waitResult |-> "none",   \* what its Wait call returned
     result |-> "none"]

\* createDLQHeaders was not called
NotBuilt == [done |-> FALSE, msg |-> NoMessage, err |-> Nil, totalRetries |-> 0,
             headers |-> <<>>]

\* the callers of KafkaMetrics.Close
MetricsCloseIds == {"mclose1", "mclose2", "mclose3"}

\* NewKafkaMetrics: both channels open, the mutex free, the uptime goroutine
\* started
NewKafkaMetrics ==
    [stopCh |-> FALSE,        \* stopCh is closed
     doneCh |-> FALSE,        \* doneCh is closed
     mu |-> "free",           \* the Close call that holds the mutex
     loop |-> "running",      \* updateUptimeLoop: running or exited
     uptimes |-> 0,           \* RecordUptime calls made by the loop
     stopCloses |-> 0]        \* close(stopCh) calls made

\* the Consumer instances that were given the same Metrics sink
Instances == {"main", "dlq", "audit"}

\* a Consumer on which Run was not called
IdleInstance == [pc |-> "idle", isRunning |-> FALSE, signalled |-> FALSE]

InitCalls ==
    /\ isRunning = FALSE
    /\ stopCh = FALSE
    /\ doneCh = FALSE
    /\ activeConsumers = 0
    /\ pc = [r \in RunIds |-> "idle"]
    /\ ctxDone = [r \in RunIds |-> FALSE]
    /\ cancelCalled = [r \in RunIds |-> FALSE]
    /\ watcher = [r \in RunIds |-> "none"]
    /\ runResult = [r \in RunIds |-> "none"]
    /\ stopPc = [s \in StopIds |-> "idle"]
    /\ loc = [r \in RunIds |-> FreshLoc(FALSE, NoMessage)]
    /\ waitCall = [w \in WaitIds |-> "idle"]
    /\ closerCall = [k \in CloserIds |-> IdleCloser]
    /\ readerClosed = FALSE
    /\ emitCall = [c \in EmitIds |-> IdleEmit]
    /\ uuidsIssued = 0
    /\ fleet = [c \in Instances |-> IdleInstance]
    /\ metrics = NewKafkaMetrics
    /\ metricsClose = [c \in MetricsCloseIds |-> "idle"]
    /\ built = NotBuilt

\* the topic arguments of Publish; "" stands for the default topic
PublishTopics == {"", "events"}

DefaultTopic == "orders"

\* NewProducer: the writer is open, closed is false, SetActiveProducers(1)
NewProducer ==
    [closed |-> FALSE,
     writerCloses |-> <<>>,   \* outcome of each writer.Close() call
     gauge |-> <<1>>]         \* the values passed to SetActiveProducers

\* a Publish call that has not started
IdlePublish ==
    [pc |-> "idle",
     t |-> "",                \* the topic written to
     result |-> "none",
     wroteClosed |-> FALSE,   \* WriteMessages was invoked on a producer
                              \* whose Close had returned nil
     latency |-> <<>>,        \* RecordPublishTime calls, by topic
     sent |-> <<>>]           \* IncMessagesSent calls, by status

\* a producer from NewProducer on which no call was made
InitProducerIdle ==
    /\ producer = NewProducer
    /\ closeCall = [c \in CloseIds |-> "idle"]
    /\ publishCall = [p \in PublishIds |-> IdlePublish]

\* no backoff has been computed
InitBackoffIdle ==
    /\ backoffConfig = DefaultBackoffConfig
    /\ waited = <<>>

\* a Consumer built by NewConsumer
Init ==
    /\ \E rel \in ReliabilityConfigs, producerOk \in BOOLEAN :
            /\ reliability = rel
            /\ retryProcessor = NewConsumer(rel, producerOk)
    /\ InitCalls
    /\ InitBackoffIdle
    /\ InitProducerIdle

\* a Consumer whose retryProcessor is any NewRetryProcessor(config, producer),
\* or none
InitRetry ==
    /\ retryProcessor \in
            {NoRetryProcessor} \cup {NewRetryProcessor(rel) : rel \in ReliabilityConfigs}
    /\ reliability = retryProcessor.config
    /\ InitCalls
    /\ InitBackoffIdle
    /\ InitProducerIdle

\* NewConsumer(cfg, handler) with the zero ReliabilityConfig
InitLifecycle ==
    /\ reliability = ZeroConfig
    /\ retryProcessor = NewConsumer(ZeroConfig, TRUE)
    /\ InitCalls
    /\ InitBackoffIdle
    /\ InitProducerIdle

\* a KafkaEventPublisher from NewKafkaEventPublisher, before any call on it
InitPublisher ==
    /\ reliability = ZeroConfig
    /\ retryProcessor = NoRetryProcessor
    /\ InitCalls
    /\ InitBackoffIdle
    /\ InitProducerIdle

\* a message about to go through the retry loop under any backoff policy
InitBackoff ==
    /\ reliability = ZeroConfig
    /\ retryProcessor = NoRetryProcessor
    /\ InitCalls
    /\ backoffConfig \in BackoffConfigs
    /\ waited = <<>>
    /\ InitProducerIdle

\* a KafkaProducer from NewProducer, before any call on it
InitProducer ==
    /\ reliability = ZeroConfig
    /\ retryProcessor = NoRetryProcessor
    /\ InitCalls
    /\ InitBackoffIdle
    /\ InitProducerIdle

\* the Run (Stop) calls are made in the order of Runs (Stops)
Earlier(order, x) == {order[i] : i \in {j \in DOMAIN order : \E k \in DOMAIN order : k > j /\ order[k] = x}}

(***************************************************************************)
(* Consumer.Run                                                            *)
(***************************************************************************)
\* a faulty Run: the running flag is not checked
AlreadyRunningNever == FALSE

\* Run: the check of isRunning under the mutex
AlreadyRunning == isRunning

\* Run: the section under the mutex, the already-running error or
\* isRunning = true
RunLock(r) ==
    /\ IF AlreadyRunning
       THEN /\ pc' = [pc EXCEPT ![r] = "done"]
            /\ runResult' = [runResult EXCEPT ![r] = "already running"]
            /\ UNCHANGED isRunning
       ELSE /\ isRunning' = TRUE
            /\ pc' = [pc EXCEPT ![r] = "activate"]
            /\ UNCHANGED runResult
    /\ UNCHANGED <<consumerVars, fleetVars, metricsVars, headerVars, publisherVars, backoffVars, producerVars, lifecycleVars, stopCh, doneCh, activeConsumers, ctxDone,
                   cancelCalled, watcher, stopPc, loc>>

\* a Run call, from the call to the end of the section under the mutex
RunEnter(r) ==
    /\ pc[r] = "idle"
    /\ \A q \in Earlier(Runs, r) : pc[q] # "idle"
    /\ RunLock(r)

\* a Run call was made and has not taken the mutex yet
RunInvoke(r) ==
    /\ pc[r] = "idle"
    /\ \A q \in Earlier(Runs, r) : pc[q] # "idle"
    /\ pc' = [pc EXCEPT ![r] = "invoked"]
    /\ UNCHANGED <<consumerVars, fleetVars, metricsVars, headerVars, publisherVars, backoffVars, producerVars, lifecycleVars, isRunning,
                   stopCh, doneCh, activeConsumers, ctxDone, cancelCalled, watcher,
                   runResult, stopPc, loc>>

\* that Run call takes the mutex
RunEnterInvoked(r) ==
    /\ pc[r] = "invoked"
    /\ RunLock(r)

\* Run: SetActiveConsumers(1), then the derived context and its goroutine
RunActivate(r) ==
    /\ pc[r] = "activate"
    /\ activeConsumers' = 1
    /\ watcher' = [watcher EXCEPT ![r] = "waiting"]
    /\ pc' = [pc EXCEPT ![r] = "loop"]
    /\ UNCHANGED <<consumerVars, fleetVars, metricsVars, headerVars, publisherVars, backoffVars, producerVars, lifecycleVars, isRunning, stopCh, doneCh, ctxDone, cancelCalled,
                   runResult, stopPc, loc>>

\* the goroutine of Run: select on stopCh and ctx.Done(), then cancel()
Watcher(r) ==
    /\ watcher[r] = "waiting"
    /\ stopCh \/ ctxDone[r]
    /\ watcher' = [watcher EXCEPT ![r] = "fired"]
    /\ cancelCalled' = [cancelCalled EXCEPT ![r] = TRUE]
    /\ UNCHANGED <<consumerVars, fleetVars, metricsVars, headerVars, publisherVars, backoffVars, producerVars, lifecycleVars, isRunning, stopCh, doneCh, activeConsumers, pc,
                   ctxDone, runResult, stopPc, loc>>

\* the caller of Run cancels the context it passed
CancelCtx(r) ==
    /\ pc[r] \notin {"idle", "done"}
    /\ ~ctxDone[r]
    /\ ctxDone' = [ctxDone EXCEPT ![r] = TRUE]
    /\ UNCHANGED <<consumerVars, fleetVars, metricsVars, headerVars, publisherVars, backoffVars, producerVars, lifecycleVars, isRunning, stopCh, doneCh, activeConsumers, pc,
                   cancelCalled, watcher, runResult, stopPc, loc>>

\* Run's deferred calls, first part: cancel(), then isRunning = false under
\* the mutex
RunCleanup(r) ==
    /\ pc[r] = "cleanup"
    /\ cancelCalled' = [cancelCalled EXCEPT ![r] = TRUE]
    /\ isRunning' = FALSE
    /\ pc' = [pc EXCEPT ![r] = "closeDone"]
    /\ UNCHANGED <<consumerVars, fleetVars, metricsVars, headerVars, publisherVars, backoffVars, producerVars, lifecycleVars, stopCh, doneCh, activeConsumers, ctxDone, watcher,
                   runResult, stopPc, loc>>

\* Run's deferred close(c.doneCh): closing a closed channel panics, and the
\* rest of the deferred function does not run
RunCloseDone(r) ==
    /\ pc[r] = "closeDone"
    /\ IF doneCh
       THEN /\ pc' = [pc EXCEPT ![r] = "done"]
            /\ runResult' = [runResult EXCEPT ![r] = "panic"]
            /\ UNCHANGED doneCh
       ELSE /\ doneCh' = TRUE
            /\ pc' = [pc EXCEPT ![r] = "resetGauge"]
            /\ UNCHANGED runResult
    /\ UNCHANGED <<consumerVars, fleetVars, metricsVars, headerVars, publisherVars, backoffVars, producerVars, lifecycleVars, isRunning, stopCh, activeConsumers, ctxDone,
                   cancelCalled, watcher, stopPc, loc>>

\* Run's deferred SetActiveConsumers(0); Run then returns what
\* processMessages returned
RunResetGauge(r) ==
    /\ pc[r] = "resetGauge"
    /\ activeConsumers' = 0
    /\ pc' = [pc EXCEPT ![r] = "done"]
    /\ runResult' = [runResult EXCEPT ![r] = "nil"]
    /\ UNCHANGED <<consumerVars, fleetVars, metricsVars, headerVars, publisherVars, backoffVars, producerVars, lifecycleVars, isRunning, stopCh, doneCh, ctxDone, cancelCalled,
                   watcher, stopPc, loc>>

(***************************************************************************)
(* Consumer.Stop                                                           *)
(***************************************************************************)
\* Stop: the check of isRunning under the read lock
StopCheck(s) ==
    /\ stopPc[s] = "idle"
    /\ \A q \in Earlier(Stops, s) : stopPc[q] # "idle"
    /\ stopPc' = [stopPc EXCEPT ![s] = IF isRunning THEN "close" ELSE "returned"]
    /\ UNCHANGED <<consumerVars, fleetVars, metricsVars, headerVars, publisherVars, backoffVars, producerVars, lifecycleVars, isRunning, stopCh, doneCh, activeConsumers, pc,
                   ctxDone, cancelCalled, watcher, runResult, loc>>

\* Stop: close(c.stopCh), outside the lock; closing a closed channel panics
StopClose(s) ==
    /\ stopPc[s] = "close"
    /\ IF stopCh
       THEN /\ stopPc' = [stopPc EXCEPT ![s] = "panic"]
            /\ UNCHANGED stopCh
       ELSE /\ stopCh' = TRUE
            /\ stopPc' = [stopPc EXCEPT ![s] = "returned"]
    /\ UNCHANGED <<consumerVars, fleetVars, metricsVars, headerVars, publisherVars, backoffVars, producerVars, lifecycleVars, isRunning, doneCh, activeConsumers, pc, ctxDone,
                   cancelCalled, watcher, runResult, loc>>

(***************************************************************************)
(* Consumer.Wait and Consumer.Close                                        *)
(***************************************************************************)
\* Wait: the select on doneCh and time.After(timeout) is entered
WaitEnter(w) ==
    /\ waitCall[w] = "idle"
    /\ waitCall' = [waitCall EXCEPT ![w] = "waiting"]
    /\ UNCHANGED <<consumerVars, fleetVars, metricsVars, headerVars, publisherVars, backoffVars, producerVars, callVars, pc, loc,
                   closerCall, readerClosed>>

\* Wait: doneCh is closed, return nil
WaitDone(w) ==
    /\ waitCall[w] = "waiting"
    /\ doneCh
    /\ waitCall' = [waitCall EXCEPT ![w] = "nil"]
    /\ UNCHANGED <<consumerVars, fleetVars, metricsVars, headerVars, publisherVars, backoffVars, producerVars, callVars, pc, loc,
                   closerCall, readerClosed>>

\* Wait: the timer fires while doneCh is open, return the timeout error
WaitTimeout(w) ==
    /\ waitCall[w] = "waiting"
    /\ ~doneCh
    /\ waitCall' = [waitCall EXCEPT ![w] = "timeout"]
    /\ UNCHANGED <<consumerVars, fleetVars, metricsVars, headerVars, publisherVars, backoffVars, producerVars, callVars, pc, loc,
                   closerCall, readerClosed>>

CloserGoto(k, label) == closerCall' = [closerCall EXCEPT ![k].pc = label]

\* Close, c.Stop(): the check of isRunning under the read lock
CloserStopCheck(k) ==
    /\ closerCall[k].pc = "idle"
    /\ CloserGoto(k, IF isRunning THEN "stopClose" ELSE "wait")
    /\ UNCHANGED <<consumerVars, fleetVars, metricsVars, headerVars, publisherVars, backoffVars, producerVars, callVars, pc, loc,
                   waitCall, readerClosed>>

\* Close, c.Stop(): close(c.stopCh); closing a closed channel panics, and
\* the panic ends the Close call
CloserStopClose(k) ==
    /\ closerCall[k].pc = "stopClose"
    /\ IF stopCh
       THEN /\ closerCall' = [closerCall EXCEPT ![k].pc = "done", ![k].result = "panic"]
            /\ UNCHANGED stopCh
       ELSE /\ stopCh' = TRUE
            /\ CloserGoto(k, "wait")
    /\ UNCHANGED <<consumerVars, fleetVars, metricsVars, headerVars, publisherVars, backoffVars, producerVars, isRunning, doneCh,
                   activeConsumers, ctxDone, cancelCalled, watcher, runResult, stopPc,
                   pc, loc, waitCall, readerClosed>>

\* Close, c.Wait(30 * time.Second): nil when doneCh is closed, the timeout
\* error when the timer fires first; the error is logged
CloserWait(k) ==
    /\ closerCall[k].pc = "wait"
    /\ closerCall' = [closerCall EXCEPT
            ![k].pc = "readerClose",
            ![k].waitResult = IF doneCh THEN "nil" ELSE "timeout"]
    /\ UNCHANGED <<consumerVars, fleetVars, metricsVars, headerVars, publisherVars, backoffVars, producerVars, callVars, pc, loc,
                   waitCall, readerClosed>>

\* Close, c.reader.Close(): its error is returned wrapped, else nil
CloserReaderClose(k) ==
    /\ closerCall[k].pc = "readerClose"
    /\ readerClosed' = TRUE
    /\ \E ok \in BOOLEAN :
            closerCall' = [closerCall EXCEPT
                ![k].pc = "done",
                ![k].result = IF ok THEN "nil" ELSE "failed to close reader"]
    /\ UNCHANGED <<consumerVars, fleetVars, metricsVars, headerVars, publisherVars, backoffVars, producerVars, callVars, pc, loc, waitCall>>

(***************************************************************************)
(* Several Consumers with one Metrics sink                                 *)
(***************************************************************************)
\* KafkaMetrics.SetActiveConsumers: the gauge is set to the argument
SetActiveConsumers(gauge, count) == count

FleetGoto(c, label) == fleet' = [fleet EXCEPT ![c].pc = label]

FleetUnchanged ==
    UNCHANGED <<consumerVars, metricsVars, headerVars, publisherVars, backoffVars, producerVars, lifecycleVars,
                isRunning, stopCh, doneCh, pc, ctxDone, cancelCalled, watcher,
                runResult, stopPc, loc>>

\* Run of one instance: isRunning = true under its mutex
FleetRunEnter(c) ==
    /\ fleet[c].pc = "idle"
    /\ ~fleet[c].isRunning
    /\ fleet' = [fleet EXCEPT ![c].pc = "activate", ![c].isRunning = TRUE]
    /\ UNCHANGED activeConsumers
    /\ FleetUnchanged

\* Run: metrics.SetActiveConsumers(1), then the read loop
FleetActivate(c) ==
    /\ fleet[c].pc = "activate"
    /\ activeConsumers' = SetActiveConsumers(activeConsumers, 1)
    /\ FleetGoto(c, "loop")
    /\ FleetUnchanged

\* Stop on the instance, or its caller cancels the context
FleetSignal(c) ==
    /\ fleet[c].isRunning
    /\ ~fleet[c].signalled
    /\ fleet' = [fleet EXCEPT ![c].signalled = TRUE]
    /\ UNCHANGED activeConsumers
    /\ FleetUnchanged

\* the read loop of the instance returns once its context is done
FleetLoopExit(c) ==
    /\ fleet[c].pc = "loop"
    /\ fleet[c].signalled
    /\ FleetGoto(c, "cleanup")
    /\ UNCHANGED activeConsumers
    /\ FleetUnchanged

\* Run's deferred calls: isRunning = false, close(doneCh)
FleetCleanup(c) ==
    /\ fleet[c].pc = "cleanup"
    /\ fleet' = [fleet EXCEPT ![c].pc = "resetGauge", ![c].isRunning = FALSE]
    /\ UNCHANGED activeConsumers
    /\ FleetUnchanged

\* Run's deferred metrics.SetActiveConsumers(0)
FleetResetGauge(c) ==
    /\ fleet[c].pc = "resetGauge"
    /\ activeConsumers' = SetActiveConsumers(activeConsumers, 0)
    /\ FleetGoto(c, "done")
    /\ FleetUnchanged

(***************************************************************************)
(* KafkaMetrics: the uptime goroutine and Close                            *)
(***************************************************************************)
MetricsUnchanged ==
    UNCHANGED <<consumerVars, fleetVars, headerVars, publisherVars, backoffVars,
                producerVars, lifecycleVars, callVars, pc, loc>>

\* updateUptimeLoop, case <-ticker.C: RecordUptime; the select may take it
\* while stopCh is closed too
UptimeTick ==
    /\ metrics.loop = "running"
    /\ metrics.uptimes < MaxTicks
    /\ metrics' = [metrics EXCEPT !.uptimes = @ + 1]
    /\ UNCHANGED metricsClose
    /\ MetricsUnchanged

\* updateUptimeLoop, case <-m.stopCh: close(m.doneCh) and return
UptimeStop ==
    /\ metrics.loop = "running"
    /\ metrics.stopCh
    /\ metrics' = [metrics EXCEPT !.doneCh = TRUE, !.loop = "exited"]
    /\ UNCHANGED metricsClose
    /\ MetricsUnchanged

\* a Close call is made and waits for the mutex
MetricsCloseCall(c) ==
    /\ metricsClose[c] = "idle"
    /\ metricsClose' = [metricsClose EXCEPT ![c] = "called"]
    /\ UNCHANGED metrics
    /\ MetricsUnchanged

\* a faulty Close: the select never takes the stopCh case
AlreadyStoppedNever == FALSE

\* Close, the select: case <-m.stopCh is ready when stopCh is closed
AlreadyStopped == metrics.stopCh

\* Close takes the mutex; when stopCh is closed it returns and the deferred
\* Unlock runs; else close(m.stopCh), which panics on a closed channel (the
\* deferred Unlock runs then too)
MetricsCloseLock(c) ==
    /\ metricsClose[c] = "called"
    /\ metrics.mu = "free"
    /\ IF AlreadyStopped
       THEN /\ metricsClose' = [metricsClose EXCEPT ![c] = "done"]
            /\ UNCHANGED metrics
       ELSE IF metrics.stopCh
       THEN /\ metricsClose' = [metricsClose EXCEPT ![c] = "panic"]
            /\ metrics' = [metrics EXCEPT !.stopCloses = @ + 1]
       ELSE /\ metricsClose' = [metricsClose EXCEPT ![c] = "wait"]
            /\ metrics' = [metrics EXCEPT !.stopCh = TRUE, !.stopCloses = @ + 1, !.mu = c]
    /\ MetricsUnchanged

\* Close, <-m.doneCh: the loop has closed doneCh; return, and the deferred
\* Unlock runs
MetricsCloseWait(c) ==
    /\ metricsClose[c] = "wait"
    /\ metrics.doneCh
    /\ metricsClose' = [metricsClose EXCEPT ![c] = "done"]
    /\ metrics' = [metrics EXCEPT !.mu = "free"]
    /\ MetricsUnchanged

(***************************************************************************)
(* KafkaEventPublisher.Publish                                             *)
(***************************************************************************)
\* a faulty Publish: the eventID argument is used as it is
EventIDAsGiven(eventID, fresh) == eventID

\* Publish: a new UUID when eventID is empty
EventIDFor(eventID, fresh) == IF eventID = "" THEN fresh ELSE eventID

\* json.Marshal(envelope): the bytes of the envelope
MarshalEnvelope(envelope) == [json |-> envelope]

\* the call and json.Marshal(payload); its error is returned
EmitMarshalPayload(c) ==
    /\ emitCall[c].pc = "idle"
    /\ \E eventType \in EventTypes, eventID \in EventIDs, payload \in {"marshals", "fails"} :
            emitCall' = [emitCall EXCEPT ![c] =
                [@ EXCEPT !.eventType = eventType,
                          !.eventID = eventID,
                          !.payload = payload,
                          !.pc = IF payload = "fails" THEN "done" ELSE "envelope",
                          !.result = IF payload = "fails" THEN "marshal payload error"
                                     ELSE "none"]]
    /\ UNCHANGED <<consumerVars, fleetVars, metricsVars, headerVars, callVars, pc, loc, backoffVars, producerVars,
                   lifecycleVars, uuidsIssued>>

\* the event id, the Envelope and json.Marshal(envelope); its error is
\* returned
EmitEnvelope(c) ==
    /\ emitCall[c].pc = "envelope"
    /\ LET generate == emitCall[c].eventID = ""
           id == EventIDFor(emitCall[c].eventID, UUIDs[uuidsIssued + 1])
       IN  /\ uuidsIssued' = IF generate THEN uuidsIssued + 1 ELSE uuidsIssued
           /\ \E ok \in BOOLEAN :
                emitCall' = [emitCall EXCEPT ![c] =
                    [@ EXCEPT !.envelope = [EventID |-> id, EventType |-> emitCall[c].eventType],
                              !.pc = IF ok THEN "send" ELSE "done",
                              !.result = IF ok THEN "none" ELSE "marshal envelope error"]]
    /\ UNCHANGED <<consumerVars, fleetVars, metricsVars, headerVars, callVars, pc, loc, backoffVars, producerVars,
                   lifecycleVars>>

\* producer.Publish(ctx, topic, envelope.EventID, envelopeBytes); what it
\* returns is returned
EmitSend(c) ==
    /\ emitCall[c].pc = "send"
    /\ \E ok \in BOOLEAN :
            emitCall' = [emitCall EXCEPT ![c] =
                [@ EXCEPT !.published = Append(@,
                                [topic |-> EventTopic,
                                 key |-> emitCall[c].envelope.EventID,
                                 value |-> MarshalEnvelope(emitCall[c].envelope)]),
                          !.pc = "done",
                          !.result = IF ok THEN "nil" ELSE "publish error"]]
    /\ UNCHANGED <<consumerVars, fleetVars, metricsVars, headerVars, callVars, pc, loc, backoffVars, producerVars,
                   lifecycleVars, uuidsIssued>>

(***************************************************************************)
(* Consumer.processMessages: the read loop                                 *)
(***************************************************************************)
Goto(r, label) == pc' = [pc EXCEPT ![r] = label]

SetLoc(r, new) == loc' = [loc EXCEPT ![r] = new]

\* the select at the top of the loop: return nil when ctx is done; the
\* locals of the previous iteration are gone
LoopSelect(r) ==
    /\ pc[r] = "loop"
    /\ Goto(r, IF ConsumerCtxDone(r) THEN "cleanup" ELSE "read")
    /\ SetLoc(r, FreshLoc(FALSE, NoMessage))
    /\ UNCHANGED <<consumerVars, fleetVars, metricsVars, headerVars, publisherVars, backoffVars, producerVars, lifecycleVars, callVars>>

\* a faulty loop: the next message is read while the one in hand awaits
\* its commit
ReadOkEarly(r, pool) ==
    /\ pc[r] \in {"read", "commit"}
    /\ ~readerClosed
    /\ \E m \in pool : SetLoc(r, FreshLoc(TRUE, m))
    /\ Goto(r, "process")
    /\ UNCHANGED <<consumerVars, fleetVars, metricsVars, headerVars, publisherVars, backoffVars, producerVars, lifecycleVars, callVars>>

\* ReadMessage returns a message; IncMessagesReceived
ReadOk(r, pool) ==
    /\ pc[r] = "read"
    /\ ~readerClosed
    /\ \E m \in pool : SetLoc(r, FreshLoc(TRUE, m))
    /\ Goto(r, "process")
    /\ UNCHANGED <<consumerVars, fleetVars, metricsVars, headerVars, publisherVars, backoffVars, producerVars, lifecycleVars, callVars>>

\* ReadMessage returns context.Canceled or context.DeadlineExceeded: return
\* nil when ctx is done, else poll again
ReadTimeout(r) ==
    /\ pc[r] = "read"
    /\ Goto(r, IF ConsumerCtxDone(r) THEN "cleanup" ELSE "loop")
    /\ UNCHANGED <<consumerVars, fleetVars, metricsVars, headerVars, publisherVars, backoffVars, producerVars, lifecycleVars, callVars, loc>>

\* ReadMessage returns any other error: log and continue
ReadError(r) ==
    /\ pc[r] = "read"
    /\ Goto(r, "loop")
    /\ UNCHANGED <<consumerVars, fleetVars, metricsVars, headerVars, publisherVars, backoffVars, producerVars, lifecycleVars, callVars, loc>>

\* a faulty loop tail: the offset is committed on success only
CommitOnSuccessOnly(r) ==
    /\ pc[r] = "commit"
    /\ SetLoc(r, [loc[r] EXCEPT
            !.statuses = Append(@, IF loc[r].ret = Nil THEN "success" ELSE "error"),
            !.commits = IF loc[r].ret = Nil THEN @ + 1 ELSE @])
    /\ Goto(r, "loop")
    /\ UNCHANGED <<consumerVars, fleetVars, metricsVars, headerVars, publisherVars, backoffVars, producerVars, lifecycleVars, callVars>>

\* a faulty loop tail: a commit error ends the loop
CommitFatal(r) ==
    /\ pc[r] = "commit"
    /\ SetLoc(r, [loc[r] EXCEPT
            !.statuses = Append(@, IF loc[r].ret = Nil THEN "success" ELSE "error"),
            !.commits = @ + 1])
    /\ \E commitOk \in BOOLEAN : Goto(r, IF commitOk THEN "loop" ELSE "cleanup")
    /\ UNCHANGED <<consumerVars, fleetVars, metricsVars, headerVars, publisherVars, backoffVars, producerVars, lifecycleVars, callVars>>

\* processMessages after processMessage returned: the status metric, then
\* CommitMessages on either branch; a commit error is logged and the loop
\* continues as after a commit that succeeded
Commit(r) ==
    /\ pc[r] = "commit"
    /\ SetLoc(r, [loc[r] EXCEPT
            !.statuses = Append(@, IF loc[r].ret = Nil THEN "success" ELSE "error"),
            !.commits = @ + 1])
    /\ \E commitOk \in BOOLEAN : Goto(r, "loop")
    /\ UNCHANGED <<consumerVars, fleetVars, metricsVars, headerVars, publisherVars, backoffVars, producerVars, lifecycleVars, callVars>>

(***************************************************************************)
(* Consumer.processMessage without a RetryProcessor                        *)
(***************************************************************************)
ParseErr == <<ErrLayer("failed to unmarshal message", -1), ErrLayer("syntax error", -1)>>

\* the record of one Handle call that returned res at the given attempt
Handled(l, res, attempt) ==
    [l EXCEPT
        !.handles = @ + 1,
        !.last = res,
        !.markedAt = IF res \in DocumentedNonRetryable /\ @[res] = -1
                     THEN [@ EXCEPT ![res] = attempt]
                     ELSE @]

\* a faulty direct path: the handler's error is logged and not returned
SimpleProcessSwallowed(r) ==
    /\ pc[r] = "process"
    /\ ~retryProcessor.present
    /\ IF ~loc[r].msg.valid
       THEN SetLoc(r, [loc[r] EXCEPT !.ret = ParseErr])
       ELSE \E res \in HandlerResults :
                SetLoc(r, [Handled(loc[r], res, 0) EXCEPT !.ret = Nil])
    /\ Goto(r, "commit")
    /\ UNCHANGED <<consumerVars, fleetVars, metricsVars, headerVars, publisherVars, backoffVars, producerVars, lifecycleVars, callVars>>

\* processMessage without a RetryProcessor: json.Unmarshal, then one
\* handler.Handle call; either error is returned wrapped
SimpleProcess(r) ==
    /\ pc[r] = "process"
    /\ ~retryProcessor.present
    /\ IF ~loc[r].msg.valid
       THEN SetLoc(r, [loc[r] EXCEPT !.ret = ParseErr])
       ELSE \E res \in HandlerResults :
                SetLoc(r, [Handled(loc[r], res, 0) EXCEPT
                    !.ret = IF res = "nil" THEN Nil
                            ELSE Wrap("handler failed", HandlerErr(res, 0))])
    /\ Goto(r, "commit")
    /\ UNCHANGED <<consumerVars, fleetVars, metricsVars, headerVars, publisherVars, backoffVars, producerVars, lifecycleVars, callVars>>

(***************************************************************************)
(* RetryProcessor.ProcessWithRetry                                         *)
(***************************************************************************)
\* a faulty entry: a message that cannot be parsed goes into the retry loop
RPParseSkipped(r) ==
    /\ pc[r] = "process"
    /\ retryProcessor.present
    /\ SetLoc(r, [loc[r] EXCEPT
            !.retryCount = getRetryCount(loc[r].msg, retryProcessor.config)])
    /\ Goto(r, "handle")
    /\ UNCHANGED <<consumerVars, fleetVars, metricsVars, headerVars, publisherVars, backoffVars, producerVars, lifecycleVars, callVars>>

\* parseMessage; on failure sendToDLQ(ctx, msg, err, -1); else getRetryCount
RPParse(r) ==
    /\ pc[r] = "process"
    /\ retryProcessor.present
    /\ IF ~loc[r].msg.valid
       THEN /\ SetLoc(r, [loc[r] EXCEPT
                    !.err = ParseErr,
                    !.statuses = Append(@, "parse_error"),
                    !.dlqCalls = Append(@, -1)])
            /\ Goto(r, "dlq")
       ELSE /\ SetLoc(r, [loc[r] EXCEPT
                    !.retryCount = getRetryCount(loc[r].msg, retryProcessor.config)])
            /\ Goto(r, "handle")
    /\ UNCHANGED <<consumerVars, fleetVars, metricsVars, headerVars, publisherVars, backoffVars, producerVars, lifecycleVars, callVars>>

\* the metrics one iteration of the retry loop records after Handle returned
\* the error kind at the given attempt
FailureStatuses(kind, attempt, retryMax) ==
    (IF attempt > 0 THEN <<"retry_attempt">> ELSE <<>>)
    \o (IF IsNonRetryable(kind) THEN <<"non_retryable">>
        ELSE IF attempt < retryMax THEN <<"retry">>
        ELSE <<"retry_exhausted">>)

\* a faulty success branch: retry_success also on the first attempt
SuccessStatusesAlways(attempt) == <<"retry_success">>

\* the metric recorded when Handle returned nil at the given attempt
SuccessStatuses(attempt) == IF attempt > 0 THEN <<"retry_success">> ELSE <<>>

\* one iteration of the retry loop, from handler.Handle to the next point
\* where it blocks or returns
RPHandle(r) ==
    /\ pc[r] = "handle"
    /\ \E res \in HandlerResults :
        LET l == loc[r]
            a == l.attempt
            n == retryProcessor.config.RetryCount
            h == Handled(l, res, a)
        IN  IF res = "nil"
            THEN /\ SetLoc(r, [h EXCEPT
                        !.err = Nil,
                        !.ret = Nil,
                        !.statuses = @ \o SuccessStatuses(a)])
                 /\ Goto(r, "commit")
            ELSE LET f == [h EXCEPT
                            !.err = HandlerErr(res, a),
                            !.statuses = @ \o FailureStatuses(res, a, n)]
                 IN  IF IsNonRetryable(res)
                     THEN /\ SetLoc(r, [f EXCEPT !.dlqCalls = Append(@, l.retryCount + a)])
                          /\ Goto(r, "dlq")
                     ELSE IF a < n
                     THEN /\ SetLoc(r, f)
                          /\ Goto(r, "backoff")
                     ELSE /\ SetLoc(r, [f EXCEPT !.dlqCalls = Append(@, l.retryCount + n)])
                          /\ Goto(r, "dlq")
    /\ UNCHANGED <<consumerVars, fleetVars, metricsVars, headerVars, publisherVars, backoffVars, producerVars, lifecycleVars, callVars>>

\* a faulty wait: the timer branch is taken although ctx is done
RPBackoffElapsedAnyway(r) ==
    /\ pc[r] = "backoff"
    /\ SetLoc(r, [loc[r] EXCEPT !.waits = @ + 1, !.attempt = @ + 1])
    /\ Goto(r, "handle")
    /\ UNCHANGED <<consumerVars, fleetVars, metricsVars, headerVars, publisherVars, backoffVars, producerVars, lifecycleVars, callVars>>

\* the select of the backoff wait, timer branch: the timer fires while
\* ctx.Done() is still open (the select takes the case that is ready first),
\* then the next attempt
RPBackoffElapsed(r) ==
    /\ pc[r] = "backoff"
    /\ ~ConsumerCtxDone(r)
    /\ SetLoc(r, [loc[r] EXCEPT !.waits = @ + 1, !.attempt = @ + 1])
    /\ Goto(r, "handle")
    /\ UNCHANGED <<consumerVars, fleetVars, metricsVars, headerVars, publisherVars, backoffVars, producerVars, lifecycleVars, callVars>>

\* the select of the backoff wait, ctx.Done() branch: return ctx.Err()
RPBackoffCancelled(r) ==
    /\ pc[r] = "backoff"
    /\ ConsumerCtxDone(r)
    /\ SetLoc(r, [loc[r] EXCEPT !.ret = CtxErr])
    /\ Goto(r, "commit")
    /\ UNCHANGED <<consumerVars, fleetVars, metricsVars, headerVars, publisherVars, backoffVars, producerVars, lifecycleVars, callVars>>

\* sendToDLQ: whether the message is published at all
DLQConfigured(config) == config.DLQEnabled /\ config.DLQTopic # ""

\* a faulty drop: the processing error comes back wrapped
DroppedResultWrapped(processingErr) == Wrap("DLQ disabled", processingErr)

\* sendToDLQ: the return value when DLQ is disabled or has no topic
DroppedResult(processingErr) == processingErr

\* what the headers of the original topic, partition and offset hold, and
\* the time of the failure, as text
OriginalTopic == <<"orders">>

OriginalPartition == <<"partition">>

OriginalOffset == <<"offset">>

FailedAt == <<"now">>

\* a faulty createDLQHeaders: the retry-count headers of the original
\* message are copied too
createDLQHeadersKeepAll(originalMsg, err, totalRetries, config) ==
    originalMsg.headers
    \o << [Key |-> config.DLQRetryHeader, Value |-> Itoa(totalRetries)],
          [Key |-> config.DLQErrorHeader, Value |-> ErrorText(err)],
          [Key |-> config.DLQTimestampHeader, Value |-> FailedAt],
          [Key |-> "x-original-topic", Value |-> OriginalTopic],
          [Key |-> "x-original-partition", Value |-> OriginalPartition],
          [Key |-> "x-original-offset", Value |-> OriginalOffset] >>

\* createDLQHeaders: the original headers without the retry-count header,
\* then the headers of the escalation
createDLQHeaders(originalMsg, err, totalRetries, config) ==
    SelectSeq(originalMsg.headers, LAMBDA h : h.Key # config.DLQRetryHeader)
    \o << [Key |-> config.DLQRetryHeader, Value |-> Itoa(totalRetries)],
          [Key |-> config.DLQErrorHeader, Value |-> ErrorText(err)],
          [Key |-> config.DLQTimestampHeader, Value |-> FailedAt],
          [Key |-> "x-original-topic", Value |-> OriginalTopic],
          [Key |-> "x-original-partition", Value |-> OriginalPartition],
          [Key |-> "x-original-offset", Value |-> OriginalOffset] >>

\* the totalRetries arguments of sendToDLQ: -1 for a message that does not
\* parse, else the count of the header plus the attempts made
TotalRetries == -1 .. (MaxRetryCount + 2)

\* the errors sendToDLQ is called with
EscalatedErrs == {ParseErr, HandlerErr("plain", 0), HandlerErr("kafkaNonRetryable", 0)}

\* one createDLQHeaders call of the RetryProcessor, on any message
BuildDLQHeaders ==
    /\ ~built.done
    /\ \E m \in DLQInputMessages, err \in EscalatedErrs, totalRetries \in TotalRetries :
            built' = [done |-> TRUE, msg |-> m, err |-> err, totalRetries |-> totalRetries,
                      headers |-> createDLQHeaders(m, err, totalRetries, retryProcessor.config)]
    /\ UNCHANGED <<consumerVars, fleetVars, metricsVars, publisherVars, backoffVars,
                   producerVars, lifecycleVars, callVars, pc, loc>>

\* sendToDLQ: the message it builds for the DLQ topic
dlqMsg(originalMsg, err, totalRetries, config) ==
    [Topic |-> config.DLQTopic,
     Headers |-> createDLQHeaders(originalMsg, err, totalRetries, config)]

\* KafkaProducer.Publish(ctx, topic, key, value): the kafka.Message it hands
\* to WriteMessages has a topic, a key and a value, and no headers
PublishedMessage(topic) == [Topic |-> topic, Headers |-> <<>>]

\* a faulty sendToDLQ: the publish runs under the caller's context
PublishCtxOfCaller == [parent |-> "caller", timeoutSeconds |-> 10]

\* sendToDLQ: context.WithTimeout(context.Background(), 10*time.Second)
PublishCtx == [parent |-> "background", timeoutSeconds |-> 10]

\* a context derived from the caller's is done when the caller's is
CancelledByCaller(r, c) == c.parent = "caller" /\ ConsumerCtxDone(r)

\* a faulty sendToDLQ: a failed publish is logged and not returned
PublishFailureSwallowed(err) == Nil

\* sendToDLQ: the return value when Publish returned err
PublishFailureResult(err) == Wrap("failed to send to DLQ", err)

\* sendToDLQ: drop, or one producer.Publish under its own context, then the
\* DLQ metrics or the wrapped publish error; a write under a context that
\* is done fails
RPSendToDLQ(r) ==
    /\ pc[r] = "dlq"
    /\ IF ~DLQConfigured(retryProcessor.config)
       THEN SetLoc(r, [loc[r] EXCEPT !.ret = DroppedResult(loc[r].err)])
       ELSE \E ok \in (IF CancelledByCaller(r, PublishCtx) THEN {FALSE} ELSE BOOLEAN) :
                SetLoc(r, [loc[r] EXCEPT
                    !.pubs = Append(@, IF ok THEN "ok" ELSE "fail"),
                    !.writes = Append(@,
                        [ctx |-> PublishCtx,
                         msg |-> PublishedMessage(
                            dlqMsg(loc[r].msg, loc[r].err,
                                   loc[r].dlqCalls[Len(loc[r].dlqCalls)],
                                   retryProcessor.config).Topic)]),
                    !.statuses = @ \o (IF ok THEN <<"dlq_message", "dlq">> ELSE <<>>),
                    !.ret = IF ok THEN Nil ELSE PublishFailureResult(PublishErr)])
    /\ Goto(r, "commit")
    /\ UNCHANGED <<consumerVars, fleetVars, metricsVars, headerVars, publisherVars, backoffVars, producerVars, lifecycleVars, callVars>>

(***************************************************************************)
(* The backoff of successive attempts                                      *)
(***************************************************************************)
\* ProcessWithRetry, attempt < RetryCount after a retryable failure:
\* backoff := GetRetryBackoffWithJitter(attempt), then the wait
ComputeBackoff ==
    /\ Len(waited) < backoffConfig.RetryCount
    /\ waited' = Append(waited, GetRetryBackoffWithJitter(backoffConfig, Len(waited)))
    /\ UNCHANGED <<consumerVars, fleetVars, metricsVars, headerVars, publisherVars, callVars, pc, loc, backoffConfig, producerVars,
                   lifecycleVars>>

(***************************************************************************)
(* KafkaProducer                                                           *)
(***************************************************************************)
\* writer.Close() has returned nil: the writer takes no more messages
WriterClosed == \E i \in DOMAIN producer.writerCloses : producer.writerCloses[i] = "ok"

\* Close, all of it under the write lock: nothing when closed is set; else
\* SetActiveProducers(0) and writer.Close(), and closed is set only when
\* writer.Close() returned nil
ProducerClose(c) ==
    /\ closeCall[c] = "idle"
    /\ \A q \in Earlier(Closes, c) : closeCall[q] # "idle"
    /\ IF producer.closed
       THEN /\ closeCall' = [closeCall EXCEPT ![c] = "nil"]
            /\ UNCHANGED producer
       ELSE \E ok \in BOOLEAN :
            /\ producer' = [producer EXCEPT
                    !.gauge = Append(@, 0),
                    !.writerCloses = Append(@, IF ok THEN "ok" ELSE "fail"),
                    !.closed = ok]
            /\ closeCall' = [closeCall EXCEPT
                    ![c] = IF ok THEN "nil" ELSE "failed to close writer"]
    /\ UNCHANGED <<consumerVars, fleetVars, metricsVars, headerVars, publisherVars, callVars, pc, loc, backoffVars, publishCall,
                   lifecycleVars>>

\* Publish, the part under the read lock: the closed error, returned before
\* the latency is deferred, or the choice of the topic
PublishCheck(p) ==
    /\ publishCall[p].pc = "idle"
    /\ \A q \in Earlier(Publishes, p) : publishCall[q].pc # "idle"
    /\ \E topic \in PublishTopics :
            publishCall' = [publishCall EXCEPT ![p] =
                IF producer.closed
                THEN [@ EXCEPT !.pc = "done", !.result = "producer is closed"]
                ELSE [@ EXCEPT !.pc = "write",
                               !.t = IF topic # "" THEN topic ELSE DefaultTopic]]
    /\ UNCHANGED <<consumerVars, fleetVars, metricsVars, headerVars, publisherVars, callVars, pc, loc, backoffVars, producer, closeCall,
                   lifecycleVars>>

\* Publish after the read lock was released: writer.WriteMessages, the
\* status metric, and the deferred RecordPublishTime; a closed writer takes
\* no message
PublishWrite(p) ==
    /\ publishCall[p].pc = "write"
    /\ \E ok \in (IF WriterClosed THEN {FALSE} ELSE BOOLEAN) :
            publishCall' = [publishCall EXCEPT ![p] =
                [@ EXCEPT !.pc = "done",
                          !.wroteClosed = producer.closed,
                          !.sent = Append(@, IF ok THEN "success" ELSE "error"),
                          !.latency = Append(@, publishCall[p].t),
                          !.result = IF ok THEN "nil" ELSE "write failed"]]
    /\ UNCHANGED <<consumerVars, fleetVars, metricsVars, headerVars, publisherVars, callVars, pc, loc, backoffVars, producer, closeCall,
                   lifecycleVars>>

(***************************************************************************)
(* Specifications                                                          *)
(***************************************************************************)
\* the steps of one Run call, reading its messages from pool
RunStep(r, pool) ==
    \/ RunEnter(r)
    \/ RunActivate(r)
    \/ Watcher(r)
    \/ CancelCtx(r)
    \/ LoopSelect(r)
    \/ ReadOk(r, pool)
    \/ ReadTimeout(r)
    \/ ReadError(r)
    \/ SimpleProcess(r)
    \/ RPParse(r)
    \/ RPHandle(r)
    \/ RPBackoffElapsed(r)
    \/ RPBackoffCancelled(r)
    \/ RPSendToDLQ(r)
    \/ Commit(r)
    \/ RunCleanup(r)
    \/ RunCloseDone(r)
    \/ RunResetGauge(r)

StopStep(s) ==
    \/ StopCheck(s)
    \/ StopClose(s)

\* concurrent and repeated Run and Stop calls on one Consumer
Next ==
    \/ \E r \in RunIds : RunStep(r, LoopMessages)
    \/ \E s \in StopIds : StopStep(s)

\* one Run call, ended by its context, over every message and configuration
NextRetry == RunStep(Runs[1], Messages)

\* the Consumer as NewConsumer builds it
Spec == Init /\ [][Next]_vars

\* the Consumer around any RetryProcessor
SpecRetry == InitRetry /\ [][NextRetry]_vars

\* the steps of one Run call of a Consumer without a RetryProcessor, the
\* call and the taking of the mutex being two steps
LifecycleRunStep(r) ==
    \/ RunInvoke(r)
    \/ RunEnterInvoked(r)
    \/ RunActivate(r)
    \/ Watcher(r)
    \/ CancelCtx(r)
    \/ LoopSelect(r)
    \/ ReadOk(r, LifecycleMessages)
    \/ ReadTimeout(r)
    \/ ReadError(r)
    \/ SimpleProcess(r)
    \/ Commit(r)
    \/ RunCleanup(r)
    \/ RunCloseDone(r)
    \/ RunResetGauge(r)

WaitStep(w) ==
    \/ WaitEnter(w)
    \/ WaitDone(w)
    \/ WaitTimeout(w)

CloserStep(k) ==
    \/ CloserStopCheck(k)
    \/ CloserStopClose(k)
    \/ CloserWait(k)
    \/ CloserReaderClose(k)

\* concurrent and repeated Run, Stop, Wait and Close calls on one Consumer
NextLifecycle ==
    \/ \E r \in RunIds : LifecycleRunStep(r)
    \/ StopStep(Stops[1])
    \/ \E w \in WaitIds : WaitStep(w)
    \/ \E k \in CloserIds : CloserStep(k)

\* the life cycle of a Consumer that NewConsumer built without reliability
SpecLifecycle == InitLifecycle /\ [][NextLifecycle]_vars

\* concurrent KafkaEventPublisher.Publish calls on one publisher
NextPublisher ==
    \E c \in EmitIds : EmitMarshalPayload(c) \/ EmitEnvelope(c) \/ EmitSend(c)

SpecPublisher == InitPublisher /\ [][NextPublisher]_vars

NextBackoff == ComputeBackoff

\* the waits of one message whose every attempt fails, under any policy
SpecBackoff == InitBackoff /\ [][NextBackoff]_vars

\* concurrent and repeated Close and Publish calls on one KafkaProducer
NextProducer ==
    \/ \E c \in CloseIds : ProducerClose(c)
    \/ \E p \in PublishIds : PublishCheck(p) \/ PublishWrite(p)

SpecProducer == InitProducer /\ [][NextProducer]_vars

(***************************************************************************)
(* Properties                                                              *)
\* one Run call and one Close call on the Consumer as NewConsumer builds
\* it; producer is the DLQ producer NewConsumer made for the RetryProcessor
NextClose ==
    \/ RunStep(Runs[1], LifecycleMessages)
    \/ \E k \in CloserIds : CloserStep(k)

SpecClose == Init /\ [][NextClose]_vars

\* a RetryProcessor with a DLQ, before its createDLQHeaders call
InitHeaders ==
    /\ \E rel \in {c \in ReliabilityConfigs : DLQConfigured(c)} :
            /\ reliability = rel
            /\ retryProcessor = NewRetryProcessor(rel)
    /\ InitCalls
    /\ InitBackoffIdle
    /\ InitProducerIdle

NextHeaders == BuildDLQHeaders

SpecHeaders == InitHeaders /\ [][NextHeaders]_vars

\* a KafkaMetrics from NewKafkaMetrics
InitMetrics ==
    /\ reliability = ZeroConfig
    /\ retryProcessor = NoRetryProcessor
    /\ InitCalls
    /\ InitBackoffIdle
    /\ InitProducerIdle

\* the uptime goroutine and concurrent Close calls
NextMetrics ==
    \/ UptimeTick
    \/ UptimeStop
    \/ \E c \in MetricsCloseIds :
        \/ MetricsCloseCall(c)
        \/ MetricsCloseLock(c)
        \/ MetricsCloseWait(c)

SpecMetrics == InitMetrics /\ [][NextMetrics]_vars

\* Consumers built on the same Metrics sink, one Run call each
InitFleet ==
    /\ reliability = ZeroConfig
    /\ retryProcessor = NoRetryProcessor
    /\ InitCalls
    /\ InitBackoffIdle
    /\ InitProducerIdle

NextFleet ==
    \E c \in Instances :
        \/ FleetRunEnter(c)
        \/ FleetActivate(c)
        \/ FleetSignal(c)
        \/ FleetLoopExit(c)
        \/ FleetCleanup(c)
        \/ FleetResetGauge(c)

SpecFleet == InitFleet /\ [][NextFleet]_vars

(***************************************************************************)
ProcessingPcs == {"process", "handle", "backoff", "dlq", "commit"}

\* the Run call holds the running flag: from isRunning = true to the deferred
\* isRunning = false
HoldsRunning(r) == pc[r] \in {"activate", "loop", "read", "cleanup"} \cup ProcessingPcs

RetryCountOf == retryProcessor.config.RetryCount

\* the retry-count headers of a message
RetryHeaders(msg) == SelectSeq(msg.headers, LAMBDA h : h.Key = RetryHeaderKey)

\* the message has no retry-count header, or one that holds a number
PlainRetryHeader(msg) ==
    /\ Len(RetryHeaders(msg)) <= 1
    /\ Len(RetryHeaders(msg)) = 1 => Atoi(RetryHeaders(msg)[1].Value).ok

\* the value of the retry-count header, 0 if absent
PriorCount(msg) ==
    IF RetryHeaders(msg) = <<>> THEN 0 ELSE Atoi(RetryHeaders(msg)[1].Value).val

Count(seq, x) == Cardinality({i \in DOMAIN seq : seq[i] = x})

\* C1: Stop is idempotent: no Stop call, sequential or concurrent, panics on
\* closing the stop channel a second time.
StopNeverPanics == \A s \in StopIds : stopPc[s] # "panic"

\* C2: at most one Run call holds the running flag at any time, and a Run
\* call made while another holds it ends at once with the already-running
\* error, leaving the running flag, the gauge and the done channel as they are.
OneActiveRun ==
    /\ [](\A r, q \in RunIds : HoldsRunning(r) /\ HoldsRunning(q) => r = q)
    /\ [][\A r \in RunIds :
            /\ (pc[r] = "idle" /\ pc'[r] # "idle" /\ \E q \in RunIds : HoldsRunning(q))
                => /\ pc'[r] = "done"
                   /\ runResult'[r] = "already running"
                   /\ isRunning' = isRunning
                   /\ activeConsumers' = activeConsumers
                   /\ doneCh' = doneCh
            /\ pc[r] = "done" => pc'[r] = "done"]_vars

\* a Run call was turned away while another was in its read loop
RejectedWhileActive ==
    \E r, q \in RunIds :
        /\ pc[q] \in ProcessingPcs
        /\ pc[r] = "done"
        /\ runResult[r] = "already running"

\* C3: a Run call that went through its read loop and ended has returned nil.
RunReturnsNil ==
    \A r \in RunIds : pc[r] = "done" => runResult[r] \in {"nil", "already running"}

\* C4: a message that was read gets no commit attempt while it is processed,
\* exactly one when processMessage has returned, whatever it returned, and
\* Run does not leave the loop with a message in hand.
CommitOncePerMessage ==
    \A r \in RunIds :
        /\ pc[r] \in ProcessingPcs => loc[r].has /\ loc[r].commits = 0
        /\ pc[r] = "loop" /\ loc[r].has => loc[r].commits = 1
        /\ pc[r] \notin ProcessingPcs \cup {"loop"} => ~loc[r].has

\* processing failed after the shutdown signal, and the offset was committed
CommittedAfterCancel ==
    \E r \in RunIds :
        /\ pc[r] = "loop"
        /\ loc[r].has
        /\ loc[r].commits = 1
        /\ loc[r].ret # Nil
        /\ ConsumerCtxDone(r)

\* C5: with a RetryProcessor, a committed message was handled successfully
\* or went through a DLQ escalation.
CommittedMeansHandledOrEscalated ==
    \A r \in RunIds :
        (retryProcessor.present /\ loc[r].commits > 0)
            => (loc[r].last = "nil" \/ loc[r].dlqCalls # <<>>)

\* C6: when every Handle call failed with a retryable error and the context
\* was not cancelled, ProcessWithRetry made RetryCount + 1 Handle calls and
\* one sendToDLQ call, with PriorCount + RetryCount.
RetryExhaustion ==
    \A r \in RunIds :
        ( /\ pc[r] = "commit"
          /\ retryProcessor.present
          /\ loc[r].msg.valid
          /\ PlainRetryHeader(loc[r].msg)
          /\ loc[r].last \in {"plain", "temporary"}
          /\ loc[r].markedAt["transportNonRetryable"] = -1
          /\ ~ConsumerCtxDone(r) )
            => /\ loc[r].handles = RetryCountOf + 1
               /\ loc[r].dlqCalls = <<PriorCount(loc[r].msg) + RetryCountOf>>

\* retries exhausted for a redelivered message
ExhaustedRedelivery ==
    \E r \in RunIds :
        /\ pc[r] = "commit"
        /\ retryProcessor.present
        /\ RetryCountOf = 2
        /\ PriorCount(loc[r].msg) = 2
        /\ loc[r].last = "plain"
        /\ loc[r].handles = 3
        /\ loc[r].dlqCalls = <<4>>
        /\ ~ConsumerCtxDone(r)

\* C7: once a Handle call at attempt a has returned an error marked
\* non-retryable, no further Handle call and no backoff wait follow, and
\* with DLQ enabled ProcessWithRetry returns after one publish, the recorded
\* count being PriorCount + a.
NonRetryableOnce ==
    \A r \in RunIds :
        LET a == loc[r].markedAt["kafkaNonRetryable"]
        IN  (retryProcessor.present /\ a >= 0)
                => /\ a <= RetryCountOf
                   /\ pc[r] \in {"dlq", "commit", "loop"}
                   /\ loc[r].handles = a + 1
                   /\ loc[r].waits = a
                   /\ PlainRetryHeader(loc[r].msg)
                        => loc[r].dlqCalls = <<PriorCount(loc[r].msg) + a>>
                   /\ (DLQConfigured(retryProcessor.config) /\ pc[r] \in {"commit", "loop"})
                        => Len(loc[r].pubs) = 1

\* a non-retryable error on a retry of a redelivered message, published
NonRetryableOnRetry ==
    \E r \in RunIds :
        /\ pc[r] = "commit"
        /\ loc[r].markedAt["kafkaNonRetryable"] = 1
        /\ RetryCountOf = 2
        /\ loc[r].dlqCalls = <<3>>
        /\ loc[r].pubs = <<"ok">>

\* C8: once a Handle call at attempt a has returned an error made by
\* transport.NewNonRetryableError, the retry path makes no further Handle
\* call for the message and escalates to the DLQ.
TransportNonRetryableGoesToDLQ ==
    \A r \in RunIds :
        LET a == loc[r].markedAt["transportNonRetryable"]
        IN  (retryProcessor.present /\ a >= 0)
                => /\ pc[r] \in {"dlq", "commit", "loop"}
                   /\ loc[r].handles = a + 1
                   /\ loc[r].dlqCalls # <<>>

\* C9: when Handle returns nil after k failures, ProcessWithRetry returns nil
\* after k backoff waits, without escalation or publish, and has recorded
\* retry_success exactly when k > 0; for k = 0 it has recorded no metric.
SuccessAfterRetries ==
    \A r \in RunIds :
        (pc[r] = "commit" /\ retryProcessor.present /\ loc[r].last = "nil")
            => LET k == Count(loc[r].statuses, "retry")
               IN  /\ k <= RetryCountOf
                   /\ loc[r].handles = k + 1
                   /\ loc[r].waits = k
                   /\ loc[r].ret = Nil
                   /\ loc[r].dlqCalls = <<>>
                   /\ loc[r].pubs = <<>>
                   /\ Count(loc[r].statuses, "retry_success") = (IF k > 0 THEN 1 ELSE 0)
                   /\ k = 0 => loc[r].statuses = <<>>

\* success on the third attempt
SucceededOnThirdAttempt ==
    \E r \in RunIds :
        /\ pc[r] = "commit"
        /\ retryProcessor.present
        /\ loc[r].last = "nil"
        /\ loc[r].handles = 3
        /\ loc[r].waits = 2

\* C10: with DLQ disabled or without a DLQ topic, when every Handle call
\* failed with a retryable error and no wait was cut short, ProcessWithRetry
\* returned the error of the last of its RetryCount + 1 Handle calls as it
\* was, published nothing, and the loop commits the offset.
DroppedReturnsHandlerError ==
    \A r \in RunIds :
        ( /\ pc[r] \in {"commit", "loop"}
          /\ retryProcessor.present
          /\ ~DLQConfigured(retryProcessor.config)
          /\ loc[r].last \in {"plain", "temporary"}
          /\ loc[r].markedAt["transportNonRetryable"] = -1
          /\ loc[r].ret # CtxErr )
            => /\ loc[r].handles = RetryCountOf + 1
               /\ loc[r].ret = HandlerErr(loc[r].last, RetryCountOf)
               /\ loc[r].pubs = <<>>
               /\ pc[r] = "loop" => loc[r].commits = 1

\* the handler failed three times, DLQ is disabled, the offset is committed
DroppedAndCommitted ==
    \E r \in RunIds :
        /\ pc[r] = "loop"
        /\ retryProcessor.present
        /\ ~retryProcessor.config.DLQEnabled
        /\ loc[r].last = "plain"
        /\ loc[r].handles = 3
        /\ loc[r].ret = HandlerErr("plain", 2)
        /\ loc[r].commits = 1

\* C11: when the context is done while ProcessWithRetry waits out a backoff,
\* the wait ends with ProcessWithRetry returning the context's error, without
\* another Handle call, sendToDLQ call or publish; a message whose
\* processing ended so was never escalated.
CancelledBackoff ==
    /\ [][\A r \in RunIds :
            (pc[r] = "backoff" /\ ConsumerCtxDone(r) /\ pc'[r] # "backoff")
                => /\ pc'[r] = "commit"
                   /\ loc'[r] = [loc[r] EXCEPT !.ret = CtxErr]]_vars
    /\ [](\A r \in RunIds :
            loc[r].ret = CtxErr
                => /\ pc[r] \in {"commit", "loop"}
                   /\ loc[r].handles = loc[r].waits + 1
                   /\ loc[r].dlqCalls = <<>>
                   /\ loc[r].pubs = <<>>)

\* the second backoff wait of a message was cut short, with DLQ enabled
CancelledInSecondBackoff ==
    \E r \in RunIds :
        /\ pc[r] = "commit"
        /\ loc[r].ret = CtxErr
        /\ loc[r].handles = 2
        /\ loc[r].waits = 1
        /\ DLQConfigured(retryProcessor.config)

\* C12: a message whose value cannot be parsed gets no Handle call and no
\* backoff wait; ProcessWithRetry records parse_error and calls sendToDLQ
\* once, with retry count -1, and with DLQ enabled it returns after one
\* publish.
ParseFailureIsTerminal ==
    \A r \in RunIds :
        (retryProcessor.present /\ loc[r].has /\ ~loc[r].msg.valid /\ pc[r] # "process")
            => /\ pc[r] \in {"dlq", "commit", "loop"}
               /\ loc[r].handles = 0
               /\ loc[r].waits = 0
               /\ loc[r].dlqCalls = <<-1>>
               /\ loc[r].statuses[1] = "parse_error"
               /\ Len(loc[r].pubs) =
                    (IF DLQConfigured(retryProcessor.config) /\ pc[r] # "dlq" THEN 1 ELSE 0)

\* an unparsable message that carried a retry-count header was published
\* to the DLQ
UnparsableEscalated ==
    \E r \in RunIds :
        /\ pc[r] = "commit"
        /\ retryProcessor.present
        /\ ~loc[r].msg.valid
        /\ PriorCount(loc[r].msg) = 2
        /\ loc[r].dlqCalls = <<-1>>
        /\ loc[r].pubs = <<"ok">>

\* C13: every message written to the DLQ topic carries the headers that
\* createDLQHeaders built for it, so the retry count recorded for the
\* escalation can be read back from it.
DLQHeadersDelivered ==
    \A r \in RunIds :
        \A i \in DOMAIN loc[r].writes :
            loc[r].pubs[i] = "ok"
                => LET w == loc[r].writes[i].msg
                   IN  /\ w.Headers = createDLQHeaders(loc[r].msg, loc[r].err,
                                            loc[r].dlqCalls[i], retryProcessor.config)
                       /\ getRetryCountFrom(w.Headers, retryProcessor.config.DLQRetryHeader)
                            = loc[r].dlqCalls[i]

\* C14: when ProcessWithRetry reaches the escalation with DLQ enabled, one
\* publish is made, under a context derived from context.Background(), so
\* the caller's cancellation does not reach it.
DLQPublishDecoupled ==
    \A r \in RunIds :
        (DLQConfigured(retryProcessor.config) /\ loc[r].dlqCalls # <<>>
         /\ pc[r] \in {"commit", "loop"})
            => /\ Len(loc[r].writes) = 1
               /\ loc[r].writes[1].ctx.parent = "background"
               /\ ~CancelledByCaller(r, loc[r].writes[1].ctx)

\* a DLQ publish succeeded although the caller's context was cancelled
\* before the escalation was reached
PublishedAfterCancel ==
    \E r \in RunIds :
        /\ pc[r] = "commit"
        /\ ctxDone[r]
        /\ loc[r].pubs = <<"ok">>
        /\ loc[r].ret = Nil
        /\ loc[r].handles = 2

\* C15: when the DLQ publish fails, ProcessWithRetry returns an error that
\* wraps the publish error after that one publish, without the DLQ metrics;
\* the loop records the error status, commits the offset once and goes on.
DLQFailureContained ==
    \A r \in RunIds :
        (loc[r].pubs # <<>> /\ loc[r].pubs[Len(loc[r].pubs)] = "fail")
            => /\ pc[r] \in {"commit", "loop"}
               /\ loc[r].pubs = <<"fail">>
               /\ Len(loc[r].dlqCalls) = 1
               /\ Len(loc[r].ret) = Len(PublishErr) + 1
               /\ SubSeq(loc[r].ret, 2, Len(loc[r].ret)) = PublishErr
               /\ Count(loc[r].statuses, "dlq") = 0
               /\ pc[r] = "loop"
                    => /\ loc[r].commits = 1
                       /\ loc[r].statuses[Len(loc[r].statuses)] = "error"

\* the publish failed after the retries were exhausted, and the offset was
\* committed while the Run call goes on
FailedPublishCommitted ==
    \E r \in RunIds :
        /\ pc[r] = "loop"
        /\ ~ConsumerCtxDone(r)
        /\ loc[r].pubs = <<"fail">>
        /\ loc[r].handles = 3
        /\ loc[r].commits = 1

\* C16: the backoff durations of the successive attempts of one message
\* never decrease, and none exceeds MaxRetryBackoff.
BackoffMonotoneBounded ==
    \A i \in DOMAIN waited :
        /\ waited[i] <= backoffConfig.MaxRetryBackoff
        /\ i > 1 => waited[i - 1] <= waited[i]

\* C17: once a Close call has returned nil, no Publish call hands a message
\* to the write client, whether it started before or after that Close.
NoWriteAfterClose ==
    \A p \in PublishIds : ~publishCall[p].wroteClosed

\* C18: a Close call that is not the first one on the producer finds the
\* writer and the gauge as the first call left them: one writer.Close() and
\* one SetActiveProducers(0) in all, and it returns nil.
CloseIdempotent ==
    \A c \in CloseIds :
        (closeCall[c] # "idle" /\ Earlier(Closes, c) # {})
            => /\ closeCall[c] = "nil"
               /\ Len(producer.writerCloses) = 1
               /\ producer.gauge = <<1, 0>>

\* C19: a Publish call that has returned has recorded one latency
\* observation and one messages-sent status, whatever it returned.
PublishAlwaysMeasured ==
    \A p \in PublishIds :
        publishCall[p].pc = "done"
            => /\ Len(publishCall[p].latency) = 1
               /\ Len(publishCall[p].sent) = 1

\* C20: every Run call that set the gauge to 1 sets it to 0 on its way out:
\* when no Run call is under way, the last value written to the gauge is 0.
GaugeResetOnExit ==
    (\A q \in RunIds : pc[q] \in {"idle", "done"}) => activeConsumers = 0

\* the read loop of the Run call is executing
InReadLoop(r) == pc[r] \in {"loop", "read"} \cup ProcessingPcs

\* C21: a Wait call returns nil only on the completion signal and the
\* timeout error only while the signal has not fired, and it does not return
\* nil while a read loop of the Consumer is executing.
WaitNilMeansLoopOver ==
    [][\A w \in WaitIds :
        /\ (waitCall[w] = "waiting" /\ waitCall'[w] = "nil")
            => (doneCh /\ \A r \in RunIds : ~InReadLoop(r))
        /\ (waitCall[w] = "waiting" /\ waitCall'[w] = "timeout") => ~doneCh]_vars

\* C22: a Close call gets through Stop, Wait and the closing of the read
\* client whatever Wait returned, and returns nil or the error of closing
\* the read client.
CloseClosesReader ==
    \A k \in CloserIds :
        /\ closerCall[k].pc = "readerClose" => closerCall[k].waitResult \in {"nil", "timeout"}
        /\ closerCall[k].pc = "done"
            => /\ readerClosed
               /\ closerCall[k].result \in {"nil", "failed to close reader"}

\* C23: the read loop is left only from its select or from a read that was
\* cut short, and only when its context is done; a read error, a processing
\* error and a commit, failed or not, lead back to the top of the loop.
LoopEndsOnlyOnDone ==
    [][\A r \in RunIds :
        /\ (InReadLoop(r) /\ pc'[r] \notin {"loop", "read"} \cup ProcessingPcs)
            => /\ pc[r] \in {"loop", "read"}
               /\ pc'[r] = "cleanup"
               /\ ConsumerCtxDone(r)
        /\ (pc[r] = "commit" /\ pc'[r] # "commit") => pc'[r] = "loop"
        /\ (pc[r] = "read" /\ pc'[r] \notin {"read", "process", "cleanup"}) => pc'[r] = "loop"
        /\ (pc[r] \in ProcessingPcs \ {"commit"} /\ pc'[r] # pc[r])
            => pc'[r] \in ProcessingPcs]_vars

\* without a RetryProcessor a message that does not unmarshal was given up
\* and the loop is about to read again
LoopGoesOnAfterError ==
    \E r \in RunIds :
        /\ pc[r] = "loop"
        /\ ~retryProcessor.present
        /\ loc[r].ret = ParseErr
        /\ loc[r].commits = 1
        /\ ~ConsumerCtxDone(r)

\* C24: one read loop at a time runs on the Consumer and it holds one
\* message at a time: a message is read only when none is in hand, it stays
\* the one in hand through all its Handle calls up to its commit, Handle is
\* called only before that commit, and the next read follows the commit.
OneMessageAtATime ==
    /\ [](\A r, q \in RunIds : InReadLoop(r) /\ InReadLoop(q) => r = q)
    /\ [](\A r \in RunIds :
            /\ pc[r] = "read" => ~loc[r].has
            /\ (pc[r] = "loop" /\ loc[r].has) => loc[r].commits = 1)
    /\ [][\A r \in RunIds :
            /\ (pc'[r] = "process" /\ pc[r] # "process")
                => (pc[r] = "read" /\ loc'[r].handles = 0 /\ loc'[r].commits = 0)
            /\ (pc[r] \in ProcessingPcs /\ pc'[r] \in ProcessingPcs \cup {"loop"})
                => loc'[r].msg = loc[r].msg
            /\ (pc[r] = pc'[r] /\ loc[r].has /\ loc'[r].has) => loc'[r] = loc[r]
            /\ (loc[r].has /\ loc'[r].has /\ loc'[r].handles # loc[r].handles)
                => /\ loc'[r].handles = loc[r].handles + 1
                   /\ pc[r] \in {"process", "handle"}
                   /\ loc[r].commits = 0]_vars

\* a later Run call on the Consumer retries a message after the read loop
\* of the earlier one has ended
SecondRunRetries ==
    /\ pc[Runs[1]] = "done"
    /\ pc[Runs[2]] = "handle"
    /\ loc[Runs[2]].handles = 1
    /\ loc[Runs[2]].commits = 0

\* C25: a KafkaEventPublisher.Publish call that has returned made no
\* Producer call when a serialization failed, and returned that error;
\* otherwise it made one, keyed by the event id of the envelope it sent,
\* which is the eventID argument when that is not empty and else a new,
\* non-empty identifier no other call got.
PublishOncePerCall ==
    \A c \in EmitIds :
        LET e == emitCall[c]
        IN  e.pc = "done"
                => /\ e.result \in {"marshal payload error", "marshal envelope error"}
                        <=> e.published = <<>>
                   /\ e.published # <<>>
                        => /\ Len(e.published) = 1
                           /\ e.published[1].key = e.published[1].value.json.EventID
                           /\ e.published[1].key # ""
                           /\ e.eventID # "" => e.published[1].key = e.eventID
                           /\ e.eventID = ""
                                => /\ e.published[1].key \notin EventIDs
                                   /\ \A d \in EmitIds \ {c} :
                                        emitCall[d].envelope.EventID # e.published[1].key

\* two calls without an event id were published under different identifiers
GeneratedIdsPublished ==
    \A c \in EmitIds :
        /\ emitCall[c].pc = "done"
        /\ emitCall[c].eventID = ""
        /\ emitCall[c].result = "nil"
        /\ Len(emitCall[c].published) = 1

RECURSIVE Pow(_, _)
Pow(b, e) == IF e = 0 THEN 1 ELSE b * Pow(b, e - 1)

\* min(base * multiplier^a, max), for a multiplier num / den
CappedPower(rc, a) ==
    LET n == rc.RetryBackoff * Pow(rc.RetryBackoffMultiplier.num, a)
        d == Pow(rc.RetryBackoffMultiplier.den, a)
    IN  IF n > rc.MaxRetryBackoff * d THEN rc.MaxRetryBackoff ELSE n \div d

\* C26: the backoff waited after failed attempt a is
\* min(RetryBackoff * multiplier^a, MaxRetryBackoff), for every a below
\* RetryCount.
BackoffIsCappedPower ==
    \A i \in DOMAIN waited : waited[i] = CappedPower(backoffConfig, i - 1)

\* C27: a Consumer that NewConsumer built with retry_count = N > 0 and DLQ
\* disabled has called a handler that always fails retryably N + 1 times by
\* the time the message is committed. (Processing of a message ends at the
\* first nil or non-retryable result, so a retryable failure as the latest
\* result means every call failed retryably.)
RetriesWithoutDLQ ==
    \A r \in RunIds :
        (/\ pc[r] = "commit"
         /\ reliability.RetryCount > 0
         /\ ~reliability.DLQEnabled
         /\ loc[r].msg.valid
         /\ loc[r].last \in HandlerErrKinds \ DocumentedNonRetryable)
        => loc[r].handles = reliability.RetryCount + 1

\* C28: the metric "success" is recorded for a message only if a Handle call
\* for it returned nil (processing ends at the first nil, so that call is
\* the latest one); a message that went to the DLQ is never counted so.
SuccessMeansHandled ==
    \A r \in RunIds :
        (\E i \in DOMAIN loc[r].statuses : loc[r].statuses[i] = "success")
        => /\ loc[r].last = "nil"
           /\ loc[r].dlqCalls = <<>>

\* C29: once the context given to ProcessWithRetry is cancelled, a message
\* whose handler returned only retryable errors is not published to the DLQ,
\* whichever attempt was the latest.
NoDLQAfterCancel ==
    [][\A r \in RunIds :
         (/\ pc[r] = "dlq"
          /\ ConsumerCtxDone(r)
          /\ loc[r].last \in {"plain", "temporary"})
         => loc'[r].pubs = loc[r].pubs]_vars

\* C30: a Stop call made after Run was invoked is not lost: when it returns
\* while that Run call has not taken the mutex yet, stopCh is closed, so that
\* the Run call ends without its context being cancelled.
StopNeverLost ==
    [][\A s \in StopIds :
         (/\ stopPc[s] = "idle"
          /\ stopPc'[s] = "returned"
          /\ \E r \in RunIds : pc[r] = "invoked")
         => stopCh']_vars

\* C31: over any sequence of calls on one Consumer, a Run call that reaches
\* its deferred close(doneCh) finds the channel open, and a Run call that
\* takes the running flag finds the stop channel open (no stop signal of an
\* earlier cycle is left to cancel it).
FreshChannelsPerRun ==
    [][\A r \in RunIds :
         /\ (pc[r] = "closeDone" /\ pc'[r] # "closeDone") => ~doneCh
         /\ (pc[r] # "activate" /\ pc'[r] = "activate") => ~stopCh]_vars

\* C32: when a Wait call returns nil the cleanup of Run is over: the running
\* flag is false and the gauge of active consumers is back at 0.
WaitNilMeansCleanedUp ==
    [][\A w \in WaitIds :
         (waitCall[w] = "waiting" /\ waitCall'[w] = "nil")
         => (~isRunning /\ activeConsumers = 0)]_vars

\* the message in hand failed on the path without a RetryProcessor
FailedDirectly(r) ==
    /\ loc[r].has
    /\ ~retryProcessor.present
    /\ (~loc[r].msg.valid \/ loc[r].last \in HandlerErrKinds)

\* C33: without a RetryProcessor a message gets at most one Handle call, and
\* none when it cannot be deserialized; there is no backoff wait and no DLQ
\* call or publish; a deserialization or handler error comes back to the
\* read loop, which records the status error once and commits the offset.
DirectPathFailsOnce ==
    \A r \in RunIds :
        (loc[r].has /\ ~retryProcessor.present)
        => /\ loc[r].handles <= 1
           /\ ~loc[r].msg.valid => loc[r].handles = 0
           /\ loc[r].waits = 0
           /\ loc[r].dlqCalls = <<>>
           /\ loc[r].pubs = <<>>
           /\ loc[r].commits <= 1
           /\ (pc[r] = "loop") = (loc[r].commits = 1)
           /\ (FailedDirectly(r) /\ pc[r] \in {"commit", "loop"}) => loc[r].ret # Nil
           /\ (FailedDirectly(r) /\ pc[r] = "loop") => loc[r].statuses = <<"error">>
           /\ (FailedDirectly(r) /\ pc[r] = "commit") => loc[r].statuses = <<>>

\* a handler error on the direct path was counted and committed
HandlerErrorCommitted ==
    \E r \in RunIds :
        /\ FailedDirectly(r)
        /\ loc[r].msg.valid
        /\ loc[r].last = "plain"
        /\ loc[r].handles = 1
        /\ pc[r] = "loop"
        /\ loc[r].statuses = <<"error">>
        /\ loc[r].commits = 1

\* C34: with one Metrics sink shared by several Consumers, the gauge of
\* active consumers reads 0 only when no Consumer is in its read loop.
GaugeZeroMeansNoneRunning ==
    activeConsumers = 0 => \A c \in Instances : fleet[c].pc # "loop"

\* C35: the write client gets no write once its close has begun: no Publish
\* call goes through WriteMessages after a Close call has called
\* writer.Close(), whatever that call returned.
NoWriteOnceCloseBegan ==
    [][\A p \in PublishIds :
         (publishCall[p].pc = "write" /\ publishCall'[p].pc = "done")
         => producer.writerCloses = <<>>]_vars

\* C36: on a Consumer whose Run was never invoked, the Wait step of a Close
\* call does not end by its timeout.
IdleCloseDoesNotWait ==
    \A k \in CloserIds :
        ((\A r \in RunIds : pc[r] = "idle") /\ closerCall[k].pc \in {"readerClose", "done"})
        => closerCall[k].waitResult # "timeout"

\* C37: once a Close call on the Consumer has returned, the read client is
\* closed and so is the DLQ producer that NewConsumer made for the
\* RetryProcessor.
CloseClosesEveryClient ==
    \A k \in CloserIds :
        (closerCall[k].pc = "done" /\ closerCall[k].result \in {"nil", "failed to close reader"})
        => /\ readerClosed
           /\ retryProcessor.present => producer.writerCloses # <<>>

\* C38: over any number of Close calls on a KafkaMetrics, stopCh is closed
\* at most once and no call panics; when a Close call has returned, stopCh
\* was closed once, the uptime loop has exited, and no RecordUptime call
\* follows.
MetricsCloseStopsOnce ==
    /\ [](/\ metrics.stopCloses <= 1
          /\ \A c \in MetricsCloseIds :
                /\ metricsClose[c] # "panic"
                /\ metricsClose[c] = "done"
                    => /\ metrics.stopCloses = 1
                       /\ metrics.loop = "exited")
    /\ [][(\E c \in MetricsCloseIds : metricsClose[c] = "done")
            => metrics'.uptimes = metrics.uptimes]_vars

\* two Close calls have returned on a KafkaMetrics whose loop had recorded
\* an uptime
TwoMetricsClosesReturned ==
    \E c, d \in MetricsCloseIds :
        /\ c # d
        /\ metricsClose[c] = "done"
        /\ metricsClose[d] = "done"
        /\ metrics.uptimes > 0
        /\ metrics.stopCloses = 1

\* the headers of a list whose key is not the given one, in their order
RECURSIVE Without(_, _)
Without(headers, key) ==
    IF headers = <<>> THEN <<>>
    ELSE IF Head(headers).Key = key THEN Without(Tail(headers), key)
    ELSE <<Head(headers)>> \o Without(Tail(headers), key)

====
